---- MODULE Spec2Model ----
(***************************************************************************)
(* A model of generate.py: a mail merge that fills the class="template"    *)
(* regions of an SVG document with rows of a CSV file, renders every       *)
(* filled page with inkscape and concatenates the pages with ghostscript.  *)
(*                                                                         *)
(* The program is sequential; pc is the position in the code.  The CSV     *)
(* reader and the row iterator are lazy: a row comes into existence when   *)
(* it is pulled, so the rows of the input are chosen pull by pull.         *)
(***************************************************************************)
EXTENDS Integers, Sequences, FiniteSets, TLC

\* ---------------------------------------------------------------- bounds
\* The longest row source (rows of the CSV file, or Records of an iterator).
MaxRows == 3
\* The largest number of class="template" elements of the SVG template.
MaxRegions == 2

\* ------------------------------------------------------- lookup tables
\* One entry of each table is enough to tell a hit from a miss; the
\* values "Soup", "Fish" and "Cake" below are in no table.
starter_map ==
    [x \in {"Shallot tart tatin, rocket, lemon thyme (V)"} |-> "Shallot tart tatin"]

main_map ==
    [x \in {"Summer vegetable & harissa tagine with preserved lemon, jasmine rice (Ve)"}
        |-> "Tagine (Ve)"]

dessert_map ==
    [x \in {"Fresh fruit salad (Ve)"} |-> "Fruit salad"]

\* ---------------------------------------------------------- the inputs
\* The header row of the CSV file: the columns the adapter reads when it
\* yields a row, with or without the column it reads when it skips one.
Headers ==
    { {"Name of Guest", "Starter", "Main course", "Dessert"},
      {"Name of Guest", "Name of Guest 1", "Starter", "Main course", "Dessert"} }

\* The cells of one data row (csv.DictReader: one dict per data row).
CsvRow(fieldnames, name, starter, main, dessert) ==
    [f \in fieldnames |->
        CASE f = "Name of Guest" -> name
          [] f = "Starter" -> starter
          [] f = "Main course" -> main
          [] f = "Dessert" -> dessert
          [] OTHER -> ""]

\* The data rows the file may hold: rows whose courses are all in the
\* tables, and rows with one cell empty or outside its table.
CsvRows(fieldnames) ==
    LET S == CHOOSE x \in DOMAIN starter_map : TRUE
        M == CHOOSE x \in DOMAIN main_map : TRUE
        D == CHOOSE x \in DOMAIN dessert_map : TRUE
    IN  { CsvRow(fieldnames, n, S, M, D) : n \in {"Ann", "Bob"} }
        \cup { CsvRow(fieldnames, "Ann", s, M, D) : s \in {"", "Soup"} }
        \cup { CsvRow(fieldnames, "Ann", S, "Fish", D),
               CsvRow(fieldnames, "Ann", S, M, "Cake") }

\* The Records a plain iterator handed to generate_pdf may yield: dicts
\* over any non-empty set of these keys.
Keys == {"name", "starter"}
Values(k) == IF k = "name" THEN {"x", "y"} ELSE {"s"}
RecordSet ==
    UNION { { r \in [K -> {"x", "y", "s"}] : \A k \in K : r[k] \in Values(k) } :
            K \in (SUBSET Keys) \ {{}} }

\* ------------------------------------------------------- the document
\* An element tree is the sequence of its elements (the root left out) in
\* document order, each with its depth below the root: the descendants of
\* an element are the elements that follow it while the depth stays larger.
Elem(tag, cls, depth, text) ==
    [tag |-> tag, cls |-> cls, depth |-> depth, text |-> text]

\* The content of one template region at depth d: a slot of each element
\* type, a slot whose label no Record carries, and a labelled element that
\* is neither a tspan nor a flowPara.
RegionBlock(d) ==
    << Elem("g", "template", d, ""),
       Elem("tspan", "name", d + 1, "[name]"),
       Elem("flowPara", "starter", d + 1, "[starter]"),
       Elem("tspan", "note", d + 1, "[note]"),
       Elem("text", "name", d + 1, "[title]") >>

RECURSIVE Blocks(_)
Blocks(depths) ==
    IF depths = << >> THEN << >>
    ELSE RegionBlock(Head(depths)) \o Blocks(Tail(depths))

\* The depths of m regions in document order: the first is a child of the
\* root, each later one a child, a sibling or an uncle of the one before.
Shapes(m) ==
    { s \in [1..m -> 1..m] :
        /\ (m > 0 => s[1] = 1)
        /\ \A i \in 1..(m - 1) : s[i + 1] <= s[i] + 1 }

\* The templates: a labelled tspan outside every region, then the regions.
Documents ==
    { << Elem("tspan", "name", 1, "[heading]") >> \o Blocks(s) :
        s \in UNION { Shapes(m) : m \in 0..MaxRegions } }

\* ---------------------------------------------------------- the state
VARIABLES
    entry,      \* "main": the command line; "generate_pdf": a direct call
    force,      \* args.force
    isatty,     \* os.isatty(sys.stdin.fileno())
    fieldnames, \* the header row of the CSV file
    overwrite,  \* generate_pdf's parameter
    outFile,    \* what is at the output path
    pc,         \* the position in the code
    error,      \* the exception that ended the run
    master,     \* master_tree
    page,       \* page_tree
    pos,        \* replace: the position in the list of templates
    count,      \* replace: count
    go_again,   \* generate_page_svg_trees: go_again
    pageRecs,   \* the regions filled on page_tree, each with its Record
    rowsRead,   \* the data rows read from the CSV file so far
    produced,   \* the Records data_iterator has yielded so far
    srcDone,    \* data_iterator has raised StopIteration
    yielded,    \* the pages generate_page_svg_trees has yielded
    tmpdir,     \* the temporary directory exists
    tmpfiles,   \* the files in it
    pdfs,       \* generate_pdf: pdfs
    rendered,   \* the trees handed to inkscape, in order
    gsCalls,    \* the input lists handed to gs, in order
    printed,    \* the lines written to stdout
    pulls       \* the calls of next(replacements) made so far

vars ==
    << entry, force, isatty, fieldnames, overwrite, outFile, pc, error,
       master, page, pos, count, go_again, pageRecs, rowsRead, produced,
       srcDone, yielded, tmpdir, tmpfiles, pdfs, rendered, gsCalls, printed,
       pulls >>

NoError == [type |-> "", key |-> ""]

Terminal == {"done", "raised", "exit1"}

\* ------------------------------------------------------------ replace
\* root.findall(".//*[@class='template']"): the positions of the template
\* regions, in document order.
Templates(tree) ==
    LET IsTemplate(i) == tree[i].cls = "template"
    IN  SelectSeq([i \in 1..Len(tree) |-> i], IsTemplate)

\* The descendants of element i.
Descendants(tree, i) ==
    { j \in (i + 1)..Len(tree) :
        \A k \in (i + 1)..j : tree[k].depth > tree[i].depth }

\* The element types replace looks for.
ElemTypes == {"tspan", "flowPara"}

\* template.findall(".//svg:<elem_type>[@class='<k>']") for a key k.
Slots(tree, i, k) ==
    { j \in Descendants(tree, i) :
        tree[j].tag \in ElemTypes /\ tree[j].cls = k }

\* A variant of the fill that empties the slots of the region whose label
\* is no key of data_row.
FillRegionClearing(tree, i, data_row) ==
    [j \in 1..Len(tree) |->
        IF j \in Descendants(tree, i) /\ tree[j].tag \in ElemTypes
        THEN [tree[j] EXCEPT !.text =
                 IF tree[j].cls \in DOMAIN data_row
                 THEN data_row[tree[j].cls] ELSE ""]
        ELSE tree[j]]

\* The loops over data_row.items() and the element types: e.text = v.
FillRegion(tree, i, data_row) ==
    [j \in 1..Len(tree) |->
        IF \E k \in DOMAIN data_row : j \in Slots(tree, i, k)
        THEN [tree[j] EXCEPT !.text = data_row[tree[j].cls]]
        ELSE tree[j]]

\* Variants of the yield test: every clone is yielded; a page is yielded
\* only from its second Record on.
ShouldYieldAlways(c) == TRUE
ShouldYieldFromSecond(c) == c > 1

\* if count: yield page_tree
ShouldYield(c) == c > 0

\* A variant without the break: the loop goes on whatever replace returned.
AfterPageNoBreak(go) == "clone"

\* if not go_again: break -- and then generate_pdf goes on after its loop.
AfterPage(go) == IF go THEN "clone" ELSE "create"

\* ------------------------------------------------------------- Init
Init ==
    /\ entry \in {"main", "generate_pdf"}
    /\ IF entry = "main"
       THEN /\ force \in BOOLEAN
            /\ isatty \in BOOLEAN
            /\ fieldnames \in Headers
            /\ overwrite = FALSE
            /\ pc = "main"
       ELSE /\ force = FALSE
            /\ isatty = FALSE
            /\ fieldnames = {}
            /\ overwrite \in BOOLEAN
            /\ pc = "generate_pdf"
    /\ outFile \in {"absent", "old"}
    /\ master \in Documents
    /\ page = << >>
    /\ error = NoError
    /\ pos = 1
    /\ count = 0
    /\ go_again = TRUE
    /\ pageRecs = << >>
    /\ rowsRead = << >>
    /\ produced = << >>
    /\ srcDone = FALSE
    /\ yielded = << >>
    /\ tmpdir = FALSE
    /\ tmpfiles = {}
    /\ pdfs = << >>
    /\ rendered = << >>
    /\ gsCalls = << >>
    /\ printed = << >>
    /\ pulls = 0

\* ----------------------------------------------------------- actions
\* A variant in which an exception leaves the temporary directory behind.
RaiseLeavingFiles(type, key) ==
    /\ pc' = "raised"
    /\ error' = [type |-> type, key |-> key]
    /\ UNCHANGED << tmpdir, tmpfiles >>

\* An exception leaves generate_pdf through its TemporaryDirectory block,
\* which removes the directory, and ends the run.
Raise(type, key) ==
    /\ pc' = "raised"
    /\ error' = [type |-> type, key |-> key]
    /\ tmpdir' = FALSE
    /\ tmpfiles' = {}

\* A variant of main that takes the overwrite for granted whenever the
\* output path exists, on a terminal or not.
MainAlwaysOverwrites ==
    /\ pc = "main"
    /\ IF ~force /\ outFile # "absent"
       THEN /\ force' = TRUE
            /\ overwrite' = TRUE
       ELSE /\ overwrite' = force
            /\ UNCHANGED force
    /\ pc' = "generate_pdf"
    /\ UNCHANGED << pulls, entry, isatty, fieldnames, outFile, error, master, page,
                    pos, count, go_again, pageRecs, rowsRead, produced,
                    srcDone, yielded, tmpdir, tmpfiles, pdfs, rendered,
                    gsCalls, printed >>

\* main: the overwrite check, then process_csv sets up the lazy reader.
Main ==
    /\ pc = "main"
    /\ IF ~force /\ outFile # "absent"
       THEN IF isatty
            THEN /\ force' = TRUE
                 /\ overwrite' = TRUE
                 /\ pc' = "generate_pdf"
            ELSE /\ pc' = "exit1"
                 /\ UNCHANGED << force, overwrite >>
       ELSE /\ overwrite' = force
            /\ pc' = "generate_pdf"
            /\ UNCHANGED force
    /\ UNCHANGED << pulls, entry, isatty, fieldnames, outFile, error, master, page,
                    pos, count, go_again, pageRecs, rowsRead, produced,
                    srcDone, yielded, tmpdir, tmpfiles, pdfs, rendered,
                    gsCalls, printed >>

\* generate_pdf up to the first pull from generate_page_svg_trees, which
\* parses the template.
GeneratePdf ==
    /\ pc = "generate_pdf"
    /\ tmpdir' = TRUE
    /\ tmpfiles' = {}
    /\ pdfs' = << >>
    /\ pc' = "clone"
    /\ UNCHANGED << pulls, entry, force, isatty, fieldnames, overwrite, outFile,
                    error, master, page, pos, count, go_again, pageRecs,
                    rowsRead, produced, srcDone, yielded, rendered, gsCalls,
                    printed >>

\* The head of the while loop: the deep copy, and replace up to its loop.
Clone ==
    /\ pc = "clone"
    /\ page' = master
    /\ count' = 0
    /\ pos' = 1
    /\ pageRecs' = << >>
    /\ pc' = "next"
    /\ UNCHANGED << pulls, entry, force, isatty, fieldnames, overwrite, outFile,
                    error, master, go_again, rowsRead, produced, srcDone,
                    yielded, tmpdir, tmpfiles, pdfs, rendered, gsCalls,
                    printed >>

\* replace, one template: next(replacements) gave data_row.
Bind(data_row) ==
    /\ produced' = Append(produced, data_row)
    /\ count' = count + 1
    /\ page' = FillRegion(page, Templates(page)[pos], data_row)
    /\ pageRecs' = Append(pageRecs,
            [region |-> Templates(page)[pos], row |-> data_row])
    /\ pos' = pos + 1
    /\ pulls' = pulls + 1
    /\ pc' = "next"
    /\ UNCHANGED << error, go_again, srcDone, tmpdir, tmpfiles >>

\* A variant of the StopIteration handler that returns count, True.
ExhaustedGoesOn ==
    /\ srcDone' = TRUE
    /\ go_again' = TRUE
    /\ pulls' = pulls + 1
    /\ pc' = "after"
    /\ UNCHANGED << error, page, pos, count, pageRecs, produced, tmpdir,
                    tmpfiles >>

\* replace, one template: next(replacements) raised StopIteration.
Exhausted ==
    /\ srcDone' = TRUE
    /\ go_again' = FALSE
    /\ pulls' = pulls + 1
    /\ pc' = "after"
    /\ UNCHANGED << error, page, pos, count, pageRecs, produced, tmpdir,
                    tmpfiles >>

\* replace with a plain iterator of Records as replacements.
IterNext ==
    /\ pc = "next"
    /\ entry = "generate_pdf"
    /\ pos <= Len(Templates(page))
    /\ \/ /\ ~srcDone
          /\ Len(produced) < MaxRows
          /\ \E data_row \in RecordSet : Bind(data_row)
       \/ Exhausted
    /\ UNCHANGED << entry, force, isatty, fieldnames, overwrite, outFile,
                    master, rowsRead, yielded, pdfs, rendered, gsCalls,
                    printed >>

\* The first of the three lookups that misses, "" when none does.
MissingKey(row) ==
    IF row["Starter"] \notin DOMAIN starter_map THEN row["Starter"]
    ELSE IF row["Main course"] \notin DOMAIN main_map THEN row["Main course"]
    ELSE IF row["Dessert"] \notin DOMAIN dessert_map THEN row["Dessert"]
    ELSE ""

\* The dict filter_wedding_rsvp yields for a row.
ClassDict(row) ==
    [name |-> row["Name of Guest"],
     starter |-> starter_map[row["Starter"]],
     main |-> main_map[row["Main course"]],
     dessert |-> dessert_map[row["Dessert"]]]

\* A variant of the skip that lacks the continue: the row with the empty
\* Starter is yielded like the others, with an empty starter.
SkipRowYields(row) ==
    /\ printed' = Append(printed, << "Skipping", row["Name of Guest"] >>)
    /\ Bind([name |-> row["Name of Guest"],
             starter |-> "",
             main |-> main_map[row["Main course"]],
             dessert |-> dessert_map[row["Dessert"]]])

\* filter_wedding_rsvp, a row with an empty Starter: the diagnostic, then
\* continue; the pull goes on with the next row.
SkipRow(row) ==
    IF "Name of Guest 1" \in fieldnames
    THEN /\ printed' = Append(printed,
                << "Skipping", row["Name of Guest 1"] >>)
         /\ UNCHANGED << pc, error, page, pos, count, go_again, pageRecs,
                         produced, srcDone, tmpdir, tmpfiles, pulls >>
    ELSE /\ Raise("KeyError", "Name of Guest 1")
         /\ pulls' = pulls + 1
         /\ UNCHANGED << printed, page, pos, count, go_again, pageRecs,
                         produced, srcDone >>

\* replace with filter_wedding_rsvp as replacements: the adapter reads one
\* row of the CSV file, and skips it, yields its dict or fails.
FilterWeddingRsvp ==
    /\ pc = "next"
    /\ entry = "main"
    /\ pos <= Len(Templates(page))
    /\ \/ /\ ~srcDone
          /\ Len(rowsRead) < MaxRows
          /\ \E row \in CsvRows(fieldnames) :
                /\ rowsRead' = Append(rowsRead, row)
                /\ IF row["Starter"] = ""
                   THEN SkipRow(row)
                   ELSE /\ printed' = Append(printed,
                                << "Preparing", row["Name of Guest"] >>)
                        /\ IF MissingKey(row) # ""
                           THEN /\ Raise("KeyError", MissingKey(row))
                                /\ pulls' = pulls + 1
                                /\ UNCHANGED << page, pos, count, go_again,
                                       pageRecs, produced, srcDone >>
                           ELSE Bind(ClassDict(row))
       \/ /\ Exhausted
          /\ UNCHANGED << rowsRead, printed >>
    /\ UNCHANGED << entry, force, isatty, fieldnames, overwrite, outFile,
                    master, yielded, pdfs, rendered, gsCalls >>

\* replace: the loop over the templates ends, return count, True.
ReplaceReturn ==
    /\ pc = "next"
    /\ pos > Len(Templates(page))
    /\ go_again' = TRUE
    /\ pc' = "after"
    /\ UNCHANGED << pulls, entry, force, isatty, fieldnames, overwrite, outFile,
                    error, master, page, pos, count, pageRecs, rowsRead,
                    produced, srcDone, yielded, tmpdir, tmpfiles, pdfs,
                    rendered, gsCalls, printed >>

\* generate_page_svg_trees: the page is yielded to generate_pdf's loop.
Yield ==
    /\ pc = "after"
    /\ ShouldYield(count)
    /\ yielded' = Append(yielded, [tree |-> page, recs |-> pageRecs])
    /\ pc' = "render"
    /\ UNCHANGED << pulls, entry, force, isatty, fieldnames, overwrite, outFile,
                    error, master, page, pos, count, go_again, pageRecs,
                    rowsRead, produced, srcDone, tmpdir, tmpfiles, pdfs,
                    rendered, gsCalls, printed >>

\* generate_page_svg_trees: nothing to yield; loop or break.
NoYield ==
    /\ pc = "after"
    /\ ~ShouldYield(count)
    /\ pc' = AfterPage(go_again)
    /\ UNCHANGED << pulls, entry, force, isatty, fieldnames, overwrite, outFile,
                    error, master, page, pos, count, go_again, pageRecs,
                    rowsRead, produced, srcDone, yielded, tmpdir, tmpfiles,
                    pdfs, rendered, gsCalls, printed >>

\* A variant that puts the new file at the head of the list.
AddPdfInFront(list, name) == << name >> \o list

\* pdfs.append(svg_tree_to_pdf(tree, tempdir))
AddPdf(list, name) == Append(list, name)

\* svg_tree_to_pdf on the page just yielded: the PDF file is kept, the SVG
\* file is gone when the function is left; inkscape succeeds or fails.
\* When it succeeds the generator is resumed: loop or break.
SvgTreeToPdf ==
    /\ pc = "render"
    /\ rendered' = Append(rendered, yielded[Len(yielded)].tree)
    /\ \/ /\ tmpfiles' = tmpfiles \cup { << "pdf", Len(pdfs) + 1 >> }
          /\ pdfs' = AddPdf(pdfs, << "pdf", Len(pdfs) + 1 >>)
          /\ pc' = AfterPage(go_again)
          /\ UNCHANGED << error, tmpdir >>
       \/ /\ Raise("CalledProcessError", "inkscape")
          /\ UNCHANGED pdfs
    /\ UNCHANGED << pulls, entry, force, isatty, fieldnames, overwrite, outFile,
                    master, page, pos, count, go_again, pageRecs, rowsRead,
                    produced, srcDone, yielded, gsCalls, printed >>

\* A variant that opens the output path with mode 'w' instead of 'x'.
CreateOutputTruncating ==
    /\ pc = "create"
    /\ outFile' = IF overwrite THEN outFile ELSE "empty"
    /\ pc' = "concat"
    /\ UNCHANGED << error, tmpdir, tmpfiles >>
    /\ UNCHANGED << pulls, entry, force, isatty, fieldnames, overwrite,
                    master, page, pos, count, go_again, pageRecs, rowsRead,
                    produced, srcDone, yielded, pdfs, rendered, gsCalls,
                    printed >>

\* generate_pdf after its loop: without overwrite, the exclusive create.
CreateOutput ==
    /\ pc = "create"
    /\ IF overwrite
       THEN /\ pc' = "concat"
            /\ UNCHANGED << outFile, error, tmpdir, tmpfiles >>
       ELSE IF outFile = "absent"
            THEN /\ outFile' = "empty"
                 /\ pc' = "concat"
                 /\ UNCHANGED << error, tmpdir, tmpfiles >>
            ELSE /\ Raise("FileExistsError", "")
                 /\ UNCHANGED outFile
    /\ UNCHANGED << pulls, entry, force, isatty, fieldnames, overwrite, master,
                    page, pos, count, go_again, pageRecs, rowsRead, produced,
                    srcDone, yielded, pdfs, rendered, gsCalls, printed >>

\* concatenate_pdfs: gs writes the output path.  When gs fails it may have
\* left the path alone or have written a part of the document there.
ConcatenatePdfs ==
    /\ pc = "concat"
    /\ gsCalls' = Append(gsCalls, pdfs)
    /\ \/ /\ outFile' = "merged"
          /\ pc' = "done"
          /\ tmpdir' = FALSE
          /\ tmpfiles' = {}
          /\ UNCHANGED error
       \/ /\ outFile' \in {outFile, "partial"}
          /\ Raise("CalledProcessError", "gs")
    /\ UNCHANGED << pulls, entry, force, isatty, fieldnames, overwrite, master,
                    page, pos, count, go_again, pageRecs, rowsRead, produced,
                    srcDone, yielded, pdfs, rendered, printed >>

\* Another process creates a file at the output path during the run.
OtherProcess ==
    /\ pc \notin Terminal \cup {"main"}
    /\ outFile = "absent"
    /\ outFile' = "foreign"
    /\ UNCHANGED << pulls, entry, force, isatty, fieldnames, overwrite, pc, error,
                    master, page, pos, count, go_again, pageRecs, rowsRead,
                    produced, srcDone, yielded, tmpdir, tmpfiles, pdfs,
                    rendered, gsCalls, printed >>

Next ==
    \/ Main
    \/ GeneratePdf
    \/ Clone
    \/ IterNext
    \/ FilterWeddingRsvp
    \/ ReplaceReturn
    \/ Yield
    \/ NoYield
    \/ SvgTreeToPdf
    \/ CreateOutput
    \/ ConcatenatePdfs
    \/ OtherProcess

Spec == Init /\ [][Next]_vars

\* The program's own steps are taken as long as one is possible.
Step ==
    \/ Main
    \/ GeneratePdf
    \/ Clone
    \/ IterNext
    \/ FilterWeddingRsvp
    \/ ReplaceReturn
    \/ Yield
    \/ NoYield
    \/ SvgTreeToPdf
    \/ CreateOutput
    \/ ConcatenatePdfs

FairSpec == Init /\ [][Next]_vars /\ WF_vars(Step)

\* ------------------------------------------------------------ claims
\* The number of template regions of the template.
NumRegions == Len(Templates(master))

\* generate_page_svg_trees has left its loop: generate_pdf is past its own
\* loop, or has failed there.
GenFinished ==
    \/ pc \in {"create", "concat", "done"}
    \/ pc = "raised" /\ (error.type = "FileExistsError" \/ error.key = "gs")

\* The Records bound on the pages yielded so far, page by page and region
\* by region.
RECURSIVE BoundRows(_)
BoundRows(pages) ==
    IF pages = << >> THEN << >>
    ELSE [i \in 1..Len(Head(pages).recs) |-> Head(pages).recs[i].row]
            \o BoundRows(Tail(pages))

\* C1: with m >= 1 regions and a row source of k Records, the generator
\* has yielded ceil(k/m) pages when it finishes, and none when k = 0.
C1_PageCount ==
    (GenFinished /\ NumRegions >= 1) =>
        Len(yielded) =
            IF Len(produced) = 0 THEN 0
            ELSE (Len(produced) + NumRegions - 1) \div NumRegions

\* k is a positive multiple of m: no extra page.
C1_Witness ==
    /\ GenFinished
    /\ NumRegions = 2
    /\ Len(produced) = 2
    /\ Len(yielded) = 1

\* C2: when the generator has finished, the Records bound on the yielded
\* pages, read page by page and region by region in document order, are
\* the Records of the row source in its order, each bound once.
C2_RowsBoundOnceInOrder ==
    GenFinished =>
        /\ BoundRows(yielded) = produced
        /\ \A p \in 1..Len(yielded) :
              \A a, b \in 1..Len(yielded[p].recs) :
                 a < b => yielded[p].recs[a].region < yielded[p].recs[b].region

\* Three Records on two pages, the last page partly filled.
C2_Witness ==
    /\ GenFinished
    /\ Len(produced) = 3
    /\ Len(yielded) = 2
    /\ Len(yielded[2].recs) = 1
    /\ produced[1] # produced[2]

\* C3: with no template region in the template, the generator raises an
\* error when replace returns; it does not go round its loop.
C3_NoRegionIsAnError ==
    [][(NumRegions = 0 /\ pc = "after" /\ pc' # pc) => pc' = "raised"]_vars

\* C4: the run ends, whatever the row source: the generator finishes or
\* the run is aborted.
C4_GeneratorFinishes == <>(GenFinished \/ pc \in Terminal)

\* C5: every page the generator has yielded had a Record bound on it.
C5_NoEmptyPage ==
    \A p \in 1..Len(yielded) : Len(yielded[p].recs) >= 1

\* A page yielded with one of its two regions filled.
C5_Witness ==
    /\ NumRegions = 2
    /\ Len(yielded) = 2
    /\ Len(yielded[2].recs) = 1

\* C6: on a yielded page, the text of every slot a region owns (a tspan
\* or flowPara among its descendants that is in no region inside it) is
\* the value its own Record has for the slot's label, or the text of the
\* template when the Record has no such field.
C6_NoCrossContamination ==
    \A p \in 1..Len(yielded) :
        \A b \in 1..Len(yielded[p].recs) :
            LET tree == yielded[p].tree
                bound == yielded[p].recs[b]
                inside == Descendants(tree, bound.region)
                own == { j \in inside :
                           /\ tree[j].tag \in {"tspan", "flowPara"}
                           /\ \A r \in inside :
                                 tree[r].cls = "template"
                                    => j \notin Descendants(tree, r) }
            IN  \A j \in own :
                    tree[j].text =
                        IF tree[j].cls \in DOMAIN bound.row
                        THEN bound.row[tree[j].cls]
                        ELSE master[j].text

\* C7: a fill of a region changes nothing but the text of tspan and
\* flowPara elements inside the region whose label is a field of the
\* Record, which becomes the value of that field.
C7_FillFrame ==
    [][(pc = "next" /\ count' = count + 1) =>
        LET i == Templates(page)[pos]
            row == pageRecs'[Len(pageRecs')].row
        IN  /\ Len(page') = Len(page)
            /\ \A j \in 1..Len(page) :
                  \/ page'[j] = page[j]
                  \/ /\ j \in Descendants(page, i)
                     /\ page[j].tag \in {"tspan", "flowPara"}
                     /\ page[j].cls \in DOMAIN row
                     /\ page'[j] = [page[j] EXCEPT !.text = row[page[j].cls]]
    ]_vars

\* A fill has changed a slot of the region and kept the placeholder of
\* the slot whose label is no field of the Record.
C7_Witness ==
    /\ pc = "next"
    /\ count >= 1
    /\ LET i == pageRecs[Len(pageRecs)].region
       IN  /\ \E j \in Descendants(page, i) : page[j].text # master[j].text
           /\ \E j \in Descendants(page, i) :
                 page[j].cls = "note" /\ page[j].text = "[note]"

\* C8: when inkscape or gs has failed, the output path holds what it held
\* before the run (or what another process put there).
C8_FailureLeavesOutput ==
    (pc = "raised" /\ error.type = "CalledProcessError") =>
        outFile \in {"absent", "old", "foreign"}

\* C9: a row source that ended without a Record leads to no call of
\* inkscape and no call of gs.
C9_NoRowsNoTools ==
    (srcDone /\ produced = << >>) => (rendered = << >> /\ gsCalls = << >>)

\* C10: when a course that is in no table aborts the run, no page has been
\* handed to inkscape.
C10_UnknownValueBeforeRender ==
    (pc = "raised" /\ error.type = "KeyError" /\ error.key # "Name of Guest 1")
        => rendered = << >>
\* C11: a row with an empty Starter is skipped and the adapter goes on: no
\* run is aborted by the skip of a row.
C11_SkipNeverAborts ==
    ~(pc = "raised" /\ Len(rowsRead) >= 1
        /\ rowsRead[Len(rowsRead)]["Starter"] = "")

\* C12: when the output path exists, --force is not given and stdin is no
\* terminal, main exits with status 1 in its first step; at that exit no
\* row has been read, no page rendered, and the file is as it was.
C12_ExistingOutputAborts ==
    /\ [][(pc = "main" /\ ~force /\ ~isatty /\ outFile # "absent")
            => (pc' = "exit1" /\ outFile' = outFile)]_vars
    /\ [](pc = "exit1" =>
            /\ outFile = "old"
            /\ rowsRead = << >> /\ produced = << >> /\ printed = << >>
            /\ rendered = << >> /\ gsCalls = << >>
            /\ ~tmpdir)

\* The run has ended with exit status 1 on an existing output file.
C12_Witness ==
    /\ pc = "exit1"
    /\ entry = "main" /\ ~force /\ ~isatty
    /\ outFile = "old"

\* C13: when the output path exists, --force is not given and stdin is a
\* terminal, the file may be overwritten only after an affirmative answer.
\* The program reads no answer (it never calls input), so in this case
\* main must abort and leave the file: it must not go on to generate_pdf
\* with the permission to overwrite.
C13_OverwriteOnlyAfterAnswer ==
    [][(pc = "main" /\ ~force /\ isatty /\ outFile # "absent")
        => (pc' = "exit1" /\ ~overwrite' /\ outFile' = outFile)]_vars

\* C14: the per-page artifacts are files of the temporary directory, and
\* when generate_pdf has ended, by the merge or by any exception, the
\* directory and the files in it are gone.
C14_TempDirRemoved ==
    /\ pc \in {"done", "raised"} => (~tmpdir /\ tmpfiles = {})
    /\ tmpfiles # {} => tmpdir
    /\ pc \notin Terminal => \A i \in 1..Len(pdfs) : pdfs[i] \in tmpfiles

\* inkscape has failed on the second page, after the PDF file of the first
\* was made, and nothing is left.
C14_Witness ==
    /\ pc = "raised"
    /\ error.key = "inkscape"
    /\ Len(pdfs) = 1
    /\ Len(rendered) = 2
    /\ ~tmpdir /\ tmpfiles = {}

\* C15: the pages are handed to inkscape in the order they are yielded,
\* each before the next is yielded; the i-th file of pdfs is the one made
\* for the i-th page; gs is called at most once, after the generator has
\* finished and every yielded page is rendered, with that list.
C15_OrderPreserved ==
    /\ Len(rendered) <= Len(yielded)
    /\ Len(yielded) <= Len(rendered) + 1
    /\ \A i \in 1..Len(rendered) : rendered[i] = yielded[i].tree
    /\ \A i \in 1..Len(pdfs) : pdfs[i] = << "pdf", i >>
    /\ Len(gsCalls) <= 1
    /\ gsCalls # << >> =>
          /\ GenFinished
          /\ gsCalls[1] = pdfs
          /\ Len(gsCalls[1]) = Len(yielded)
          /\ Len(rendered) = Len(yielded)

\* gs has been called with the files of two different pages.
C15_Witness ==
    /\ Len(gsCalls) = 1
    /\ Len(gsCalls[1]) = 2
    /\ Len(yielded) = 2
    /\ yielded[1].tree # yielded[2].tree

\* C16: when replace returns on a page of m regions, count regions are
\* filled and they are the first count regions in document order.  It
\* returns go_again = True exactly when count = m (so m Records or more
\* remained), and go_again = False exactly when the row source ended
\* before the page was full (count < m Records remained, so count is the
\* smaller of the two); the scan has then stopped at the first region
\* without a Record.
C16_ReplaceResult ==
    pc = "after" =>
        LET m == Len(Templates(page))
        IN  /\ count = Len(pageRecs)
            /\ count <= m
            /\ \A i \in 1..count : pageRecs[i].region = Templates(page)[i]
            /\ go_again <=> (count = m)
            /\ go_again => pos = m + 1
            /\ ~go_again => (srcDone /\ pos = count + 1 /\ pos <= m)

\* replace returns (1, False) on a page of two regions.
C16_Witness ==
    /\ pc = "after"
    /\ Len(Templates(page)) = 2
    /\ count = 1
    /\ ~go_again

\* C17: every cycle starts from a copy equal to the parsed template, and
\* on a yielded page every region that received no Record shows the text
\* of the template in all its slots.
C17_UnfilledShowsPlaceholder ==
    /\ (pc = "next" /\ count = 0) => page = master
    /\ \A p \in 1..Len(yielded) :
          LET tree == yielded[p].tree
              filled == { yielded[p].recs[b].region :
                            b \in 1..Len(yielded[p].recs) }
          IN  \A i \in 1..Len(Templates(tree)) :
                 Templates(tree)[i] \notin filled =>
                    \A j \in Descendants(tree, Templates(tree)[i]) :
                       tree[j].text = master[j].text

\* C18: next(replacements) is called once for each region visited: every
\* call gave a Record that was bound, except the one call that raised
\* StopIteration (or the one in which the adapter failed), after which no
\* call is made.  A finished run over k Records with m >= 1 regions has
\* made k + 1 calls.
C18_PullsOncePerRegion ==
    /\ pulls = Len(produced)
                + (IF srcDone THEN 1 ELSE 0)
                + (IF pc = "raised" /\ error.type = "KeyError" THEN 1 ELSE 0)
    /\ pc = "next" => pos = count + 1
    /\ (GenFinished /\ NumRegions >= 1) => pulls = Len(produced) + 1

\* Two Records on one page of two regions: three calls.
C18_Witness ==
    /\ GenFinished
    /\ NumRegions = 2
    /\ Len(produced) = 2
    /\ pulls = 3

\* C19: in a finished run on a CSV file, the rows with an empty Starter
\* take no region: the Records bound on the yielded pages are the dicts of
\* the other rows, in order; every page is filled from its first region on
\* without a gap, every page but the last is full, and with m >= 1 regions
\* and k' such rows there are ceil(k'/m) pages (none when k' = 0).
C19_SkippedRowsTakeNoRegion ==
    (entry = "main" /\ GenFinished) =>
        LET Kept(r) == r["Starter"] # ""
            kept == SelectSeq(rowsRead, Kept)
        IN  /\ BoundRows(yielded) = [i \in 1..Len(kept) |-> ClassDict(kept[i])]
            /\ \A p \in 1..Len(yielded) :
                  /\ \A i \in 1..Len(yielded[p].recs) :
                        yielded[p].recs[i].region
                            = Templates(yielded[p].tree)[i]
                  /\ p < Len(yielded) => Len(yielded[p].recs) = NumRegions
            /\ NumRegions >= 1 =>
                  Len(yielded) =
                      IF Len(kept) = 0 THEN 0
                      ELSE (Len(kept) + NumRegions - 1) \div NumRegions

\* A skipped row between two kept rows: one full page of two regions.
C19_Witness ==
    /\ entry = "main"
    /\ GenFinished
    /\ NumRegions = 2
    /\ Len(rowsRead) = 3
    /\ rowsRead[2]["Starter"] = ""
    /\ Len(yielded) = 1
    /\ Len(yielded[1].recs) = 2

\* C20: without overwrite, a file that is at the output path, from before
\* the run or put there by another process during it, is never modified:
\* no step changes it or calls gs, and the step of generate_pdf that finds
\* it when it is about to write raises FileExistsError.
C20_ExistingFileNeverModified ==
    [][(~overwrite /\ outFile \in {"old", "foreign"}) =>
        /\ outFile' = outFile
        /\ gsCalls' = gsCalls
        /\ (pc = "create" /\ pc' # pc) =>
              (pc' = "raised" /\ error'.type = "FileExistsError")
    ]_vars

\* The command line found no file, a page was rendered, another process
\* created the file, and the exclusive create has failed.
C20_Witness ==
    /\ entry = "main"
    /\ pc = "raised"
    /\ error.type = "FileExistsError"
    /\ outFile = "foreign"
    /\ Len(rendered) >= 1
    /\ gsCalls = << >>

====
